---- MODULE Spec2Model ----
(***************************************************************************)
(* Invoice signing and verification of go-bindle (types/signature.go).     *)
(*                                                                         *)
(* Strings are sequences of tokens: the token "\n" is the newline byte,    *)
(* every other token stands for one maximal newline-free run of bytes.     *)
(* Byte strings are sequences of numbers in 0..255.  A base64 string is a  *)
(* sequence of character codes: 0..63 is the position of the character in  *)
(* the standard alphabet, PadChar is '=', LineFeed is '\n' and JunkChar is *)
(* a byte outside the alphabet.                                            *)
(*                                                                         *)
(* ed25519 is modelled as an ideal deterministic signature scheme with     *)
(* keys scaled down to one byte: the signature of msg under a key pair is  *)
(* a byte string determined by (public key, msg), and Verify accepts that  *)
(* byte string and no other.                                               *)
(***************************************************************************)
EXTENDS Integers, Sequences, FiniteSets, TLC

VARIABLES invoice, last, signed, altered

vars == <<invoice, last, signed, altered>>

----------------------------------------------------------------------------
(* Strings                                                                 *)

Str(tok) == <<tok>>

NL == "\n"

RECURSIVE Join(_, _)
Join(parts, sep) ==
    IF Len(parts) = 0 THEN <<>>
    ELSE IF Len(parts) = 1 THEN parts[1]
    ELSE parts[1] \o sep \o Join(Tail(parts), sep)

(* The tokens of the model; a token's position is its byte value in        *)
(* []byte(s).                                                              *)
Alphabet ==
    <<"\n", "~", "alice", "bob", "carol", "mybindle", "0.1.0",
      "creator", "approver", "proxy", "host", "admin",
      "e170", "098f", "5b99">>

ByteOf(tok) == CHOOSE n \in 1..Len(Alphabet) : Alphabet[n] = tok

Bytes(s) == [n \in 1..Len(s) |-> ByteOf(s[n])]

----------------------------------------------------------------------------
(* encoding/base64, StdEncoding                                            *)

PadChar == 64
LineFeed == 65
JunkChar == 66

RECURSIVE EncodeToString(_)
EncodeToString(b) ==
    IF Len(b) = 0 THEN <<>>
    ELSE IF Len(b) = 1 THEN
        <<b[1] \div 4, (b[1] % 4) * 16, PadChar, PadChar>>
    ELSE IF Len(b) = 2 THEN
        <<b[1] \div 4, (b[1] % 4) * 16 + b[2] \div 16, (b[2] % 16) * 4, PadChar>>
    ELSE
        <<b[1] \div 4, (b[1] % 4) * 16 + b[2] \div 16,
          (b[2] % 16) * 4 + b[3] \div 64, b[3] % 64>>
        \o EncodeToString(SubSeq(b, 4, Len(b)))

IsSymbol(c) == c < PadChar

(* The quanta of a string without line feeds.  Padding is accepted in the  *)
(* last quantum only, and the unused low bits of the character before the  *)
(* padding are not checked (the encoding is not Strict).                   *)
RECURSIVE DecodeQuanta(_)
DecodeQuanta(t) ==
    IF Len(t) = 0 THEN [err |-> FALSE, bytes |-> <<>>]
    ELSE IF Len(t) < 4 THEN [err |-> TRUE, bytes |-> <<>>]
    ELSE IF ~(IsSymbol(t[1]) /\ IsSymbol(t[2])) THEN [err |-> TRUE, bytes |-> <<>>]
    ELSE IF IsSymbol(t[3]) /\ IsSymbol(t[4]) THEN
        LET rest == DecodeQuanta(SubSeq(t, 5, Len(t)))
        IN  [err |-> rest.err,
             bytes |-> <<t[1] * 4 + t[2] \div 16,
                         (t[2] % 16) * 16 + t[3] \div 4,
                         (t[3] % 4) * 64 + t[4]>> \o rest.bytes]
    ELSE IF Len(t) = 4 /\ IsSymbol(t[3]) /\ t[4] = PadChar THEN
        [err |-> FALSE,
         bytes |-> <<t[1] * 4 + t[2] \div 16, (t[2] % 16) * 16 + t[3] \div 4>>]
    ELSE IF Len(t) = 4 /\ t[3] = PadChar /\ t[4] = PadChar THEN
        [err |-> FALSE, bytes |-> <<t[1] * 4 + t[2] \div 16>>]
    ELSE [err |-> TRUE, bytes |-> <<>>]

(* '\n' is skipped wherever it stands.                                     *)
DecodeString(s) == DecodeQuanta(SelectSeq(s, LAMBDA c : c # LineFeed))

----------------------------------------------------------------------------
(* crypto/ed25519                                                          *)

PublicKeySize == 1
PrivateKeySize == 1

(* The public key of a private key.                                        *)
Public(privKey) == <<privKey[1] + 100>>

SignatureOf(pubKey, msg) == pubKey \o msg

(* Sign panics unless len(privKey) = PrivateKeySize.                       *)
Sign(privKey, msg) == SignatureOf(Public(privKey), msg)

(* Verify panics unless len(pubKey) = PublicKeySize.                       *)
Verify(pubKey, msg, sig) == sig = SignatureOf(pubKey, msg)

----------------------------------------------------------------------------
(* Roles and errors                                                        *)

RoleCreator  == Str("creator")
RoleApprover == Str("approver")
RoleProxy    == Str("proxy")
RoleHost     == Str("host")

ValidRoles == {RoleCreator, RoleApprover, RoleProxy, RoleHost}

Nil                         == "nil"
ErrInvalidRole              == "invalid role"
ErrAuthorNotExist           == "author does not exist on invoice"
ErrSignatureKeyRoleMismatch == "signature key is not valid for the provided role"
ErrInvalidSignatureKey      == "signature key is not valid"
ErrInvalidSignature         == "signature is not valid"
ErrMissingSignatureKey      == "missing signature key"
CorruptInputError           == "illegal base64 data"
Panic                       == "panic"

----------------------------------------------------------------------------
(* The invoice's operations                                                *)

IncludesRole(sigKey, role) == role \in sigKey.Roles

IsAuthoredBy(i, author) ==
    \E n \in 1..Len(i.Bindle.Authors) : i.Bindle.Authors[n] = author

(* Variant of generateCleartext: the metadata without the parcels.         *)
generateCleartextOfMetadata(i, author, role) ==
    Join(<<author, i.Bindle.Name, i.Bindle.Version, role, Str("~")>>, Str(NL))

generateCleartext(i, author, role) ==
    Join(<<author, i.Bindle.Name, i.Bindle.Version, role, Str("~")>>
         \o [n \in 1..Len(i.Parcel) |-> i.Parcel[n].Label.SHA256],
         Str(NL))

(* Variant of CheckPreconditions: the author is looked up first.           *)
CheckPreconditionsAuthorFirst(i, author, role, sigKey) ==
    IF ~IsAuthoredBy(i, author) THEN ErrAuthorNotExist
    ELSE IF role \notin ValidRoles THEN ErrInvalidRole
    ELSE IF ~IncludesRole(sigKey, role) THEN ErrSignatureKeyRoleMismatch
    ELSE Nil

(* The three checks GenerateSignature starts with.                         *)
CheckPreconditions(i, author, role, sigKey) ==
    IF role \notin ValidRoles THEN ErrInvalidRole
    ELSE IF ~IncludesRole(sigKey, role) THEN ErrSignatureKeyRoleMismatch
    ELSE IF ~IsAuthoredBy(i, author) THEN ErrAuthorNotExist
    ELSE Nil

(* Variant of AppendSignature: the record is put in front.                 *)
PrependSignature(sigs, signature) == <<signature>> \o sigs

(* i.Signature = append(i.Signature, signature)                            *)
AppendSignature(sigs, signature) == Append(sigs, signature)

(* The error returned and the invoice left behind.                         *)
GenerateSignature(i, author, role, sigKey, privKey, timestamp) ==
    IF CheckPreconditions(i, author, role, sigKey) # Nil THEN
        [err |-> CheckPreconditions(i, author, role, sigKey), invoice |-> i]
    ELSE IF Len(privKey) # PrivateKeySize THEN [err |-> Panic, invoice |-> i]
    ELSE
        LET cleartext == generateCleartext(i, author, role)
            sig       == Sign(privKey, Bytes(cleartext))
            pubKey    == DecodeString(sigKey.Key)
            signature == [By        |-> author,
                          Signature |-> EncodeToString(sig),
                          Key       |-> EncodeToString(pubKey.bytes),
                          Role      |-> role,
                          At        |-> timestamp]
        IN  IF pubKey.err THEN [err |-> CorruptInputError, invoice |-> i]
            ELSE [err |-> Nil,
                  invoice |-> [i EXCEPT !.Signature = AppendSignature(@, signature)]]

(* Variant of PutKey: a label that has a key keeps it.                     *)
PutKeyOnce(keys, key) ==
    [l \in DOMAIN keys \cup {key.Label} |-> IF l \in DOMAIN keys THEN keys[l] ELSE key]

(* keys[key.Label] = &key                                                  *)
PutKey(keys, key) ==
    [l \in DOMAIN keys \cup {key.Label} |-> IF l = key.Label THEN key ELSE keys[l]]

(* Variant of ValidateKey: the label signature is decoded and not checked. *)
ValidateKeyUnchecked(key) ==
    IF DecodeString(key.Key).err THEN CorruptInputError
    ELSE IF DecodeString(key.LabelSignature).err THEN CorruptInputError
    ELSE Nil

(* One pass of the first loop: the check of a supplied key.                *)
ValidateKey(key) ==
    LET keyBytes      == DecodeString(key.Key)
        labelSigBytes == DecodeString(key.LabelSignature)
    IN  IF keyBytes.err THEN CorruptInputError
        ELSE IF labelSigBytes.err THEN CorruptInputError
        ELSE IF Len(keyBytes.bytes) # PublicKeySize THEN Panic
        ELSE IF ~Verify(keyBytes.bytes, Bytes(key.Label), labelSigBytes.bytes)
             THEN ErrInvalidSignatureKey
        ELSE Nil

(* The first loop, from key n on: the error it returns, or the map of      *)
(* label to key it builds.                                                 *)
RECURSIVE ValidateKeys(_, _, _)
ValidateKeys(sigKeys, n, keys) ==
    IF n > Len(sigKeys) THEN [err |-> Nil, keys |-> keys]
    ELSE IF ValidateKey(sigKeys[n]) # Nil THEN
        [err |-> ValidateKey(sigKeys[n]), keys |-> keys]
    ELSE ValidateKeys(sigKeys, n + 1, PutKey(keys, sigKeys[n]))

(* Variant of KeyText: the key the record carries.                         *)
KeyTextOfRecord(key, s) == s.Key

(* The base64 text of the public key a record is checked with: key.Key of  *)
(* the key looked up for it.                                               *)
KeyText(key, s) == key.Key

(* Variant of VerifiedText: the text of the role, then the author.         *)
VerifiedTextSwapped(i, key, s) == generateCleartext(i, s.Role, key.Label)

(* The text a record's signature is checked against.                       *)
VerifiedText(i, key, s) == generateCleartext(i, key.Label, s.Role)

(* Variant of CheckSignature: the result of ed25519.Verify is dropped.     *)
CheckSignatureUnverified(i, key, s) ==
    IF ~IncludesRole(key, s.Role) THEN ErrSignatureKeyRoleMismatch
    ELSE IF DecodeString(KeyText(key, s)).err THEN CorruptInputError
    ELSE IF DecodeString(s.Signature).err THEN CorruptInputError
    ELSE Nil

(* The check of record s with the key looked up for it.                    *)
CheckSignature(i, key, s) ==
    LET keyBytes  == DecodeString(KeyText(key, s))
        sigBytes  == DecodeString(s.Signature)
        cleartext == Bytes(VerifiedText(i, key, s))
    IN  IF ~IncludesRole(key, s.Role) THEN ErrSignatureKeyRoleMismatch
        ELSE IF keyBytes.err THEN CorruptInputError
        ELSE IF sigBytes.err THEN CorruptInputError
        ELSE IF Len(keyBytes.bytes) # PublicKeySize THEN Panic
        ELSE IF ~Verify(keyBytes.bytes, cleartext, sigBytes.bytes)
             THEN ErrInvalidSignature
        ELSE Nil

(* Variant of ValidateSignature: a record without a key is passed over.    *)
ValidateSignatureIfKey(i, keys, s) ==
    IF s.By \notin DOMAIN keys THEN Nil
    ELSE CheckSignature(i, keys[s.By], s)

(* One pass of the second loop: the check of signature record s.           *)
ValidateSignature(i, keys, s) ==
    IF s.By \notin DOMAIN keys THEN ErrMissingSignatureKey
    ELSE CheckSignature(i, keys[s.By], s)

(* Variant of ValidateSignatures: every record is checked and the error of *)
(* the last record that fails is returned.                                 *)
RECURSIVE ValidateSignaturesAll(_, _, _)
ValidateSignaturesAll(i, keys, n) ==
    IF n > Len(i.Signature) THEN Nil
    ELSE
        LET err  == ValidateSignature(i, keys, i.Signature[n])
            rest == ValidateSignaturesAll(i, keys, n + 1)
        IN  IF rest # Nil THEN rest ELSE err

(* The second loop, from record n on.                                      *)
RECURSIVE ValidateSignatures(_, _, _)
ValidateSignatures(i, keys, n) ==
    IF n > Len(i.Signature) THEN Nil
    ELSE
        LET err == ValidateSignature(i, keys, i.Signature[n])
        IN  IF err # Nil THEN err ELSE ValidateSignatures(i, keys, n + 1)

VerifySignatures(i, sigKeys) ==
    LET first == ValidateKeys(sigKeys, 1, <<>>)
    IN  IF first.err # Nil THEN first.err
        ELSE ValidateSignatures(i, first.keys, 1)

----------------------------------------------------------------------------
(* Bounds                                                                  *)

(* Signature records an invoice holds at most.                             *)
MaxSigs == 2

(* Keys passed to one call of VerifySignatures at most.                    *)
MaxKeys == 2

(* Alterations of a stored invoice from outside at most.                   *)
MaxAlterations == 1

----------------------------------------------------------------------------
(* Inputs                                                                  *)

Alice == Str("alice")
Bob   == Str("bob")
Carol == Str("carol")

RoleAdmin == Str("admin")

Priv1 == <<1>>
Priv2 == <<2>>

SelfSigned(label, key, roles, privKey) ==
    [Label          |-> label,
     Key            |-> key,
     Roles          |-> roles,
     LabelSignature |-> EncodeToString(Sign(privKey, Bytes(label)))]

(* alice's key, for the creator role.                                      *)
KeyAlice == SelfSigned(Alice, EncodeToString(Public(Priv1)), {RoleCreator}, Priv1)

(* A second key labelled alice: another key pair, written with a line feed *)
(* in its base64 text.                                                     *)
KeyAlice2 ==
    SelfSigned(Alice, EncodeToString(Public(Priv2)) \o <<LineFeed>>, {RoleCreator}, Priv2)

(* bob's key: it names the host role and a role outside the vocabulary.    *)
KeyBob == SelfSigned(Bob, EncodeToString(Public(Priv2)), {RoleHost, RoleAdmin}, Priv2)

(* A key whose label signature was made with another key pair.             *)
KeyForged == SelfSigned(Alice, EncodeToString(Public(Priv1)), {RoleCreator}, Priv2)

(* A key whose Key is not base64: its padding is cut short.                *)
KeyCorrupt ==
    SelfSigned(Bob, SubSeq(EncodeToString(Public(Priv1)), 1, 3), {RoleCreator}, Priv1)

AuthorInputs == {Alice, Bob, Carol}
RoleInputs   == {RoleCreator, RoleAdmin}
SignKeys     == {KeyAlice, KeyBob, KeyCorrupt}
PrivKeys     == {Priv1, Priv2}

KeyPool == {KeyAlice, KeyAlice2, KeyBob, KeyForged, KeyCorrupt}

KeyLists == UNION {[1..n -> KeyPool] : n \in 0..MaxKeys}

----------------------------------------------------------------------------
(* The state machine                                                       *)

Parcel(name, sha) == [Label |-> [Name |-> name, SHA256 |-> sha]]

NewInvoice ==
    [Bindle    |-> [Name |-> Str("mybindle"), Version |-> Str("0.1.0"),
                    Authors |-> <<Alice, Bob>>],
     Parcel    |-> <<Parcel("a", Str("e170")), Parcel("b", Str("098f"))>>,
     Signature |-> <<>>]

Init ==
    /\ invoice = NewInvoice
    /\ last = [op |-> "new", err |-> Nil]
    /\ signed = 0
    /\ altered = 0

(* time.Now(): a logical clock, one tick for every record signed.          *)
Now == Len(invoice.Signature) + 1

CallGenerateSignature(author, role, sigKey, privKey, timestamp) ==
    LET r == GenerateSignature(invoice, author, role, sigKey, privKey, timestamp)
    IN  /\ Len(r.invoice.Signature) <= MaxSigs
        /\ invoice' = r.invoice
        /\ signed' = IF r.err = Nil THEN signed + 1 ELSE signed
        /\ last' = [op |-> "GenerateSignature", author |-> author, role |-> role,
                    sigKey |-> sigKey, privKey |-> privKey, err |-> r.err]
        /\ UNCHANGED altered

CallVerifySignatures(sigKeys) ==
    /\ last' = [op |-> "VerifySignatures", sigKeys |-> sigKeys,
                err |-> VerifySignatures(invoice, sigKeys)]
    /\ UNCHANGED <<invoice, signed, altered>>

SignStep ==
    \E author \in AuthorInputs, role \in RoleInputs, sigKey \in SignKeys,
       privKey \in PrivKeys :
        CallGenerateSignature(author, role, sigKey, privKey, Now)

VerifyStep == \E sigKeys \in KeyLists : CallVerifySignatures(sigKeys)

Next == SignStep \/ VerifyStep

Spec == Init /\ [][Next]_vars

----------------------------------------------------------------------------
(* The stored invoice altered between calls.  The invoice is a plain       *)
(* record its owner may rewrite: these steps change one stored Signature   *)
(* string, one parcel's SHA256, or the order of two parcels.               *)

ShaValues == {Str("e170"), Str("098f"), <<"e170", NL, "e170">>}

StoredParcels ==
    { <<Parcel("a", Str("e170")), Parcel("b", Str("098f"))>>,
      <<Parcel("a", Str("e170")), Parcel("b", Str("e170"))>>,
      <<Parcel("a", <<"e170", NL, "e170">>), Parcel("b", Str("e170"))>> }

(* The position of the character before the padding (0: no padding).       *)
BeforePadding(s) ==
    IF Len(s) = 0 \/ s[Len(s)] # PadChar THEN 0
    ELSE IF s[Len(s) - 1] = PadChar THEN Len(s) - 2
    ELSE Len(s) - 1

(* Other strings to store in place of the base64 string s: another first   *)
(* character, a trailing line feed, a trailing byte outside the alphabet   *)
(* and, where s is padded, another low bit in the character before the     *)
(* padding.                                                                *)
AlteredStrings(s) ==
    { [s EXCEPT ![1] = (@ + 1) % 64], s \o <<LineFeed>>, s \o <<JunkChar>> }
    \cup (IF BeforePadding(s) = 0 THEN {}
          ELSE { [s EXCEPT ![BeforePadding(s)] = @ + 1] })

AlterSignature(n, value) ==
    /\ altered < MaxAlterations
    /\ n \in 1..Len(invoice.Signature)
    /\ value # invoice.Signature[n].Signature
    /\ invoice' = [invoice EXCEPT !.Signature[n].Signature = value]
    /\ last' = [op |-> "AlterSignature", n |-> n,
                old |-> invoice.Signature[n].Signature, err |-> Nil]
    /\ altered' = altered + 1
    /\ UNCHANGED signed

AlterParcelHash(n, sha) ==
    /\ altered < MaxAlterations
    /\ n \in 1..Len(invoice.Parcel)
    /\ sha # invoice.Parcel[n].Label.SHA256
    /\ invoice' = [invoice EXCEPT !.Parcel[n].Label.SHA256 = sha]
    /\ last' = [op |-> "AlterParcelHash", n |-> n,
                old |-> invoice.Parcel[n].Label.SHA256, err |-> Nil]
    /\ altered' = altered + 1
    /\ UNCHANGED signed

ReorderParcels(m, n) ==
    /\ altered < MaxAlterations
    /\ m \in 1..Len(invoice.Parcel) /\ n \in 1..Len(invoice.Parcel) /\ m < n
    /\ invoice' = [invoice EXCEPT !.Parcel[m] = invoice.Parcel[n],
                                  !.Parcel[n] = invoice.Parcel[m]]
    /\ last' = [op |-> "ReorderParcels", m |-> m, n |-> n, err |-> Nil]
    /\ altered' = altered + 1
    /\ UNCHANGED signed

StoredKeyLists == { <<KeyAlice>>, <<KeyAlice2, KeyAlice>>, <<KeyAlice, KeyBob>> }

InitStored ==
    /\ invoice \in {[NewInvoice EXCEPT !.Parcel = p] : p \in StoredParcels}
    /\ last = [op |-> "new", err |-> Nil]
    /\ signed = 0
    /\ altered = 0

SignStored ==
    \E privKey \in PrivKeys :
        CallGenerateSignature(Alice, RoleCreator, KeyAlice, privKey, Now)

VerifyStored == \E sigKeys \in StoredKeyLists : CallVerifySignatures(sigKeys)

AlterSignatureStep ==
    \E n \in 1..Len(invoice.Signature) :
        \E value \in AlteredStrings(invoice.Signature[n].Signature) :
            AlterSignature(n, value)

AlterParcelHashStep ==
    \E n \in 1..Len(invoice.Parcel), sha \in ShaValues : AlterParcelHash(n, sha)

ReorderParcelsStep ==
    \E m \in 1..Len(invoice.Parcel), n \in 1..Len(invoice.Parcel) : ReorderParcels(m, n)

NextStored ==
    \/ SignStored
    \/ VerifyStored
    \/ AlterSignatureStep
    \/ AlterParcelHashStep
    \/ ReorderParcelsStep

SpecStored == InitStored /\ [][NextStored]_vars

----------------------------------------------------------------------------
(* Vocabulary of the properties                                            *)

Signing(st)   == st.op = "GenerateSignature"
Verifying(st) == st.op = "VerifySignatures"

Authors == {invoice.Bindle.Authors[n] : n \in 1..Len(invoice.Bindle.Authors)}

(* Key and LabelSignature are base64 and Key has the size of a public key. *)
WellFormed(key) ==
    /\ ~DecodeString(key.Key).err
    /\ ~DecodeString(key.LabelSignature).err
    /\ Len(DecodeString(key.Key).bytes) = PublicKeySize

(* LabelSignature is the signature of Label under Key.                     *)
SelfCertifies(key) ==
    /\ WellFormed(key)
    /\ DecodeString(key.LabelSignature).bytes
         = SignatureOf(DecodeString(key.Key).bytes, Bytes(key.Label))

(* privKey is the private half of the key pair of key.                     *)
KeyPair(key, privKey) ==
    /\ Len(privKey) = PrivateKeySize
    /\ ~DecodeString(key.Key).err
    /\ DecodeString(key.Key).bytes = Public(privKey)

Labels(sigKeys) == {sigKeys[n].Label : n \in 1..Len(sigKeys)}

(* The invoice with its first n signature records only.                    *)
Upto(i, n) == [i EXCEPT !.Signature = SubSeq(@, 1, n)]

(* The invoice with its signature record n only.                           *)
Only(i, n) == [i EXCEPT !.Signature = <<@[n]>>]

IsPrefix(s, t) == Len(s) <= Len(t) /\ SubSeq(t, 1, Len(s)) = s

----------------------------------------------------------------------------
(* C1 as stated: whenever the key includes the role, the author is on the  *)
(* invoice and the key self-certifies, GenerateSignature followed by       *)
(* VerifySignatures([key]) returns no error.                               *)
C1_RoundTripAsStated ==
    ( /\ Signing(last)
      /\ last.role \in last.sigKey.Roles
      /\ last.author \in Authors
      /\ SelfCertifies(last.sigKey) )
    => VerifySignatures(invoice, <<last.sigKey>>) = Nil

(* C1 amended: a call of GenerateSignature whose role is in the vocabulary *)
(* and in the key's roles, whose author is on the invoice and is the key's *)
(* Label, whose key self-certifies and whose private key is the private    *)
(* half of sigKey.Key, made on an invoice that verifies under [key],       *)
(* returns no error and leaves an invoice that verifies under [key].       *)
C1_RoundTrip ==
    [][ ( /\ Signing(last')
          /\ last'.role \in ValidRoles
          /\ last'.role \in last'.sigKey.Roles
          /\ last'.author \in Authors
          /\ last'.author = last'.sigKey.Label
          /\ SelfCertifies(last'.sigKey)
          /\ KeyPair(last'.sigKey, last'.privKey)
          /\ VerifySignatures(invoice, <<last'.sigKey>>) = Nil )
        => /\ last'.err = Nil
           /\ VerifySignatures(invoice', <<last'.sigKey>>) = Nil ]_vars

(* alice has signed twice with her key pair and the invoice verifies.      *)
C1_Witness ==
    /\ Signing(last) /\ last.err = Nil
    /\ last.author = Alice /\ last.sigKey = KeyAlice /\ last.privKey = Priv1
    /\ Len(invoice.Signature) = 2
    /\ VerifySignatures(invoice, <<KeyAlice>>) = Nil

(* C2: GenerateSignature returns the error of the first failing check in   *)
(* the order role in the vocabulary (InvalidRole), role among the key's    *)
(* roles (SignatureKeyRoleMismatch), author on the invoice                 *)
(* (AuthorNotExist); when all three hold it returns none of these errors.  *)
C2_CheckOrder ==
    Signing(last) =>
        IF last.role \notin {Str("creator"), Str("approver"), Str("proxy"), Str("host")}
            THEN last.err = ErrInvalidRole
        ELSE IF last.role \notin last.sigKey.Roles
            THEN last.err = ErrSignatureKeyRoleMismatch
        ELSE IF last.author \notin Authors
            THEN last.err = ErrAuthorNotExist
        ELSE last.err \notin
                {ErrInvalidRole, ErrSignatureKeyRoleMismatch, ErrAuthorNotExist}

(* All three preconditions fail at once and InvalidRole is returned.       *)
C2_Witness ==
    /\ Signing(last)
    /\ last.role \notin ValidRoles
    /\ last.role \notin last.sigKey.Roles
    /\ last.author \notin Authors
    /\ last.err = ErrInvalidRole

(* C3: a call of GenerateSignature that returns no error leaves the list   *)
(* it found followed by one record with By = author and Role = role; a     *)
(* call that fails leaves the list it found.  Every step leaves a list the *)
(* earlier list is a prefix of, as long as the number of successful calls. *)
C3_AppendOnly ==
    [][ /\ Signing(last') =>
            IF last'.err = Nil
            THEN /\ Len(invoice'.Signature) = Len(invoice.Signature) + 1
                 /\ SubSeq(invoice'.Signature, 1, Len(invoice.Signature))
                      = invoice.Signature
                 /\ invoice'.Signature[Len(invoice'.Signature)].By = last'.author
                 /\ invoice'.Signature[Len(invoice'.Signature)].Role = last'.role
            ELSE invoice'.Signature = invoice.Signature
        /\ IsPrefix(invoice.Signature, invoice'.Signature)
        /\ Len(invoice'.Signature) = signed' ]_vars

(* A call failed on base64 after two records were signed.                  *)
C3_Witness ==
    /\ Signing(last) /\ last.err = CorruptInputError
    /\ Len(invoice.Signature) = 2 /\ signed = 2

(* The first key of the list that does not self-certify (0: none).         *)
FirstBadKey(sigKeys) ==
    IF \A n \in 1..Len(sigKeys) : SelfCertifies(sigKeys[n]) THEN 0
    ELSE CHOOSE n \in 1..Len(sigKeys) :
            /\ ~SelfCertifies(sigKeys[n])
            /\ \A m \in 1..(n - 1) : SelfCertifies(sigKeys[m])

(* C4 as stated: a list holding a key whose LabelSignature is not the      *)
(* signature of its Label under its Key makes VerifySignatures return      *)
(* InvalidSignatureKey, whatever the other keys and the invoice are.       *)
C4_BadKeyAsStated ==
    ( /\ Verifying(last)
      /\ \E n \in 1..Len(last.sigKeys) :
            WellFormed(last.sigKeys[n]) /\ ~SelfCertifies(last.sigKeys[n]) )
    => last.err = ErrInvalidSignatureKey

(* C4 amended: a list holding a key that does not self-certify makes       *)
(* VerifySignatures fail whatever the invoice holds: with                  *)
(* InvalidSignatureKey when the first such key is well-formed base64, with *)
(* the base64 error when its Key or LabelSignature is not base64.          *)
C4_BadKey ==
    ( /\ Verifying(last)
      /\ FirstBadKey(last.sigKeys) # 0 )
    => LET bad == last.sigKeys[FirstBadKey(last.sigKeys)]
       IN  IF WellFormed(bad) THEN last.err = ErrInvalidSignatureKey
           ELSE last.err = CorruptInputError

(* alice's good key, then the forged one, on an invoice that verifies      *)
(* under the good key alone.                                               *)
C4_Witness ==
    /\ Verifying(last)
    /\ last.sigKeys = <<KeyAlice, KeyForged>>
    /\ Len(invoice.Signature) > 0
    /\ VerifySignatures(invoice, <<KeyAlice>>) = Nil
    /\ last.err = ErrInvalidSignatureKey

(* The first record whose By is the Label of no key of the list (0: none). *)
FirstUnmatched(i, sigKeys) ==
    IF \A n \in 1..Len(i.Signature) : i.Signature[n].By \in Labels(sigKeys) THEN 0
    ELSE CHOOSE n \in 1..Len(i.Signature) :
            /\ i.Signature[n].By \notin Labels(sigKeys)
            /\ \A m \in 1..(n - 1) : i.Signature[m].By \in Labels(sigKeys)

(* C5 as stated: an invoice holding a record whose By is the Label of no   *)
(* supplied key makes VerifySignatures return MissingSignatureKey.         *)
C5_MissingKeyAsStated ==
    ( /\ Verifying(last)
      /\ FirstUnmatched(invoice, last.sigKeys) # 0 )
    => last.err = ErrMissingSignatureKey

(* C5 amended: such an invoice makes VerifySignatures fail; the error is   *)
(* MissingSignatureKey when every supplied key self-certifies and the      *)
(* records before the first such record verify, and otherwise the error of *)
(* the key or earlier record that fails first.                             *)
C5_MissingKey ==
    ( /\ Verifying(last)
      /\ FirstUnmatched(invoice, last.sigKeys) # 0 )
    => LET n == FirstUnmatched(invoice, last.sigKeys)
           before == VerifySignatures(Upto(invoice, n - 1), last.sigKeys)
       IN  /\ last.err # Nil
           /\ last.err = IF before = Nil THEN ErrMissingSignatureKey ELSE before

(* alice's record verifies, bob's record follows it, only alice's key is   *)
(* supplied.                                                               *)
C5_Witness ==
    /\ Verifying(last)
    /\ last.sigKeys = <<KeyAlice>>
    /\ Len(invoice.Signature) = 2
    /\ invoice.Signature[1].By = Alice
    /\ invoice.Signature[2].By = Bob
    /\ VerifySignatures(Upto(invoice, 1), <<KeyAlice>>) = Nil
    /\ last.err = ErrMissingSignatureKey

(* Other values for the Key and At fields of a record.                     *)
OtherFields ==
    {[Key |-> <<JunkChar>>, At |-> 0],
     [Key |-> EncodeToString(Public(Priv2)), At |-> 99]}

(* The invoice with the Key and At of record n taken from other[n].        *)
WithFields(i, other) ==
    [i EXCEPT !.Signature =
        [n \in 1..Len(@) |-> [@[n] EXCEPT !.Key = other[n].Key, !.At = other[n].At]]]

(* C8: an invoice that differs from the verified one in the Key and At     *)
(* fields of its records only gets the same result from VerifySignatures   *)
(* for the same keys.                                                      *)
C8_KeyAndAtUnused ==
    Verifying(last) =>
        \A other \in [1..Len(invoice.Signature) -> OtherFields] :
            VerifySignatures(WithFields(invoice, other), last.sigKeys) = last.err

(* A record that carries alice's public key but was signed with the other  *)
(* private key has been rejected under alice's key.                        *)
C8_Witness ==
    /\ Verifying(last)
    /\ last.sigKeys = <<KeyAlice>>
    /\ Len(invoice.Signature) = 1
    /\ invoice.Signature[1].Key = KeyAlice.Key
    /\ last.err = ErrInvalidSignature

(* The list without the keys that a later key of the list shares its Label *)
(* with.                                                                   *)
RECURSIVE WithoutEarlierDuplicates(_)
WithoutEarlierDuplicates(sigKeys) ==
    IF Len(sigKeys) = 0 THEN <<>>
    ELSE IF sigKeys[1].Label \in Labels(Tail(sigKeys))
         THEN WithoutEarlierDuplicates(Tail(sigKeys))
         ELSE <<sigKeys[1]>> \o WithoutEarlierDuplicates(Tail(sigKeys))

(* The last key of the list with this label.                               *)
LastKey(sigKeys, label) ==
    sigKeys[CHOOSE n \in 1..Len(sigKeys) :
                /\ sigKeys[n].Label = label
                /\ \A m \in (n + 1)..Len(sigKeys) : sigKeys[m].Label # label]

(* C9: when the supplied keys all self-certify, keys sharing a Label are   *)
(* not rejected, the result is that of the list without the earlier        *)
(* duplicates, and a record whose By is among the labels and on which      *)
(* verification stops is one the last key with that Label rejects.         *)
C9_LastKeyWins ==
    ( /\ Verifying(last)
      /\ \A n \in 1..Len(last.sigKeys) : SelfCertifies(last.sigKeys[n]) )
    => /\ last.err # ErrInvalidSignatureKey
       /\ last.err = VerifySignatures(invoice, WithoutEarlierDuplicates(last.sigKeys))
       /\ \A n \in 1..Len(invoice.Signature) :
            ( /\ invoice.Signature[n].By \in Labels(last.sigKeys)
              /\ VerifySignatures(Upto(invoice, n - 1), last.sigKeys) = Nil )
            => LET key == LastKey(last.sigKeys, invoice.Signature[n].By)
               IN  VerifySignatures(Upto(invoice, n), last.sigKeys)
                     = VerifySignatures(Only(invoice, n), <<key>>)

(* Two self-certifying keys labelled alice; the record was signed with the *)
(* private key of the first, and is rejected under the second.             *)
C9_Witness ==
    /\ Verifying(last)
    /\ last.sigKeys = <<KeyAlice, KeyAlice2>>
    /\ Len(invoice.Signature) = 1
    /\ VerifySignatures(invoice, <<KeyAlice>>) = Nil
    /\ last.err = ErrInvalidSignature

(* C10: a call of GenerateSignature made after VerifySignatures returned   *)
(* an error leaves an invoice on which VerifySignatures returns that error *)
(* for the same keys.  VerifySignatures changes nothing and every          *)
(* reachable invoice is verified with every key list, so the step carries  *)
(* over, call by call, to any sequence of calls of GenerateSignature.      *)
C10_FailurePermanent ==
    [][ ( /\ Verifying(last) /\ last.err # Nil
          /\ Signing(last') )
        => VerifySignatures(invoice', last.sigKeys) = last.err ]_vars

(* A record rejected under alice's key is followed by a later record.      *)
C10_Witness ==
    /\ Signing(last) /\ last.err = Nil
    /\ Len(invoice.Signature) = 2
    /\ VerifySignatures(Upto(invoice, 1), <<KeyAlice>>) = ErrInvalidSignature
    /\ VerifySignatures(invoice, <<KeyAlice>>) = ErrInvalidSignature
    /\ invoice.Signature[2].By = Bob

(* The stored Signature or the SHA256 of a parcel was altered right after  *)
(* VerifySignatures returned no error on an invoice that holds signatures. *)
AlteredAfterSuccess ==
    /\ Verifying(last) /\ last.err = Nil
    /\ Len(invoice.Signature) >= 1
    /\ last'.op \in {"AlterSignature", "AlterParcelHash"}

(* C6 as stated: after VerifySignatures succeeded on an invoice with a     *)
(* signature, another stored Signature value in a record, or another       *)
(* SHA256 in a parcel, makes it return InvalidSignature for the same keys. *)
C6_TamperAsStated ==
    [][ AlteredAfterSuccess
        => VerifySignatures(invoice', last.sigKeys) = ErrInvalidSignature ]_vars

(* C6 amended: another SHA256 in a parcel makes VerifySignatures return    *)
(* InvalidSignature.  Another stored Signature string makes it return      *)
(* InvalidSignature when the string is base64 of other bytes, the base64   *)
(* error when the string is not base64, and no error when the string is    *)
(* base64 of the same bytes.                                               *)
C6_Tamper ==
    [][ AlteredAfterSuccess
        => LET after == VerifySignatures(invoice', last.sigKeys)
               old   == DecodeString(invoice.Signature[last'.n].Signature)
               new   == DecodeString(invoice'.Signature[last'.n].Signature)
           IN  IF last'.op = "AlterParcelHash" THEN after = ErrInvalidSignature
               ELSE IF new.err THEN after = CorruptInputError
               ELSE IF new.bytes = old.bytes THEN after = Nil
               ELSE after = ErrInvalidSignature ]_vars

(* The invoice before its last alteration.                                 *)
Restored ==
    IF last.op = "AlterSignature"
        THEN [invoice EXCEPT !.Signature[last.n].Signature = last.old]
    ELSE IF last.op = "AlterParcelHash"
        THEN [invoice EXCEPT !.Parcel[last.n].Label.SHA256 = last.old]
    ELSE IF last.op = "ReorderParcels"
        THEN [invoice EXCEPT !.Parcel[last.m] = invoice.Parcel[last.n],
                             !.Parcel[last.n] = invoice.Parcel[last.m]]
    ELSE invoice

(* The second of two verified records was given other signature bytes.     *)
C6_Witness ==
    /\ last.op = "AlterSignature" /\ last.n = 2
    /\ Len(invoice.Signature) = 2
    /\ VerifySignatures(Restored, <<KeyAlice>>) = Nil
    /\ VerifySignatures(invoice, <<KeyAlice>>) = ErrInvalidSignature

Hashes(i) == [n \in 1..Len(i.Parcel) |-> i.Parcel[n].Label.SHA256]

HasNewline(s) == \E n \in 1..Len(s) : s[n] = NL

(* Every canonical text changes in the step, and no record that verifies   *)
(* under a key before the step verifies under it after the step.           *)
TextChanges ==
    /\ \A author \in AuthorInputs, role \in RoleInputs :
         generateCleartext(invoice', author, role)
           # generateCleartext(invoice, author, role)
    /\ \A n \in 1..Len(invoice.Signature), key \in KeyPool :
         VerifySignatures(Only(invoice, n), <<key>>) = Nil
         => VerifySignatures(Only(invoice', n), <<key>>) = ErrInvalidSignature

(* C7 as stated: the canonical text changes, and the signatures made       *)
(* before stop verifying, when one parcel's hash is changed and when the   *)
(* order of the parcels is changed.                                        *)
C7_TextBindsParcelsAsStated ==
    [][ ( \/ last'.op = "AlterParcelHash"
          \/ last'.op = "ReorderParcels" /\ invoice'.Parcel # invoice.Parcel )
        => TextChanges ]_vars

(* C7 amended: the canonical text changes, and the signatures made before  *)
(* stop verifying, when one parcel's hash is changed, and when the order   *)
(* of the parcels is changed so that the sequence of their hashes changes  *)
(* and no hash holds a newline.                                            *)
C7_TextBindsParcels ==
    [][ ( \/ last'.op = "AlterParcelHash"
          \/ /\ last'.op = "ReorderParcels"
             /\ Hashes(invoice') # Hashes(invoice)
             /\ \A n \in 1..Len(invoice.Parcel) : ~HasNewline(Hashes(invoice)[n]) )
        => TextChanges ]_vars

(* Two parcels with different hashes changed places under a record that    *)
(* verified before.                                                        *)
C7_Witness ==
    /\ last.op = "ReorderParcels"
    /\ Hashes(invoice) = <<Str("098f"), Str("e170")>>
    /\ Len(invoice.Signature) >= 1
    /\ VerifySignatures(Restored, <<KeyAlice>>) = Nil
    /\ VerifySignatures(invoice, <<KeyAlice>>) = ErrInvalidSignature

====
